---- MODULE Spec2Model ----
(***************************************************************************)
(* Composite message generators of hypothesis-ros (geometry and rosgraph   *)
(* messages).  A composite generator draws one value per declared field,   *)
(* asserts the runtime type of the drawn values and assembles a record.    *)
(* The model follows one draw of a composite statement by statement, and   *)
(* gives the draw primitive's view of a nested composite as a set of       *)
(* outcomes computed by the same rules.                                    *)
(***************************************************************************)
EXTENDS Integers, Sequences, FiniteSets, TLC

VARIABLES comp, strat, base, lastF, pc, drawn, k, events, result, error, ndraws

vars == <<comp, strat, base, lastF, pc, drawn, k, events, result, error, ndraws>>

(***************************************************************************)
(* Bounds of the model.                                                    *)
(***************************************************************************)
\* at most this many fields of a composite are given an override
MaxOverrides == 2
\* largest length an array strategy without explicit size bounds draws
MaxArr == 2
\* how many times one generator is drawn
MaxDraws == 2

(***************************************************************************)
(* Python values: a runtime type tag and a payload.  A float payload is    *)
(* kept in tenths (15 stands for 1.5).                                     *)
(***************************************************************************)
Val(t, v) == [t |-> t, v |-> v]
F(n) == Val("float", n)
\* an int payload is the pair <<n \div 2^16, n % 2^16>>, so that values up
\* to 2^32 and beyond are held exactly
PyInt(hi, lo) == Val("int", <<hi, lo>>)
I(n) == PyInt(0, n)
B(b) == Val("bool", b)
S(s) == Val("str", s)
L(q) == Val("list", q)
None == Val("None", 0)
\* an exception leaving draw(strategy) instead of a value
Raise(kind) == Val("raise", kind)
IsValue(o) == o.t # "raise"

\* a test that also holds an int to the range of uint8
IsInstance_Ranged(value, cls) ==
    IF cls = "int"
    THEN value.t = "int" /\ value.v[1] = 0 /\ value.v[2] <= 255
    ELSE value.t = cls

\* isinstance(value, cls): bool is a subclass of int; every namedtuple
\* class is a class of its own
IsInstance(value, cls) ==
    IF cls = "int" THEN value.t \in {"int", "bool"} ELSE value.t = cls

(***************************************************************************)
(* The catalog: the composites of geometry_messages.py and rosgraph_msgs.py *)
(***************************************************************************)
Catalog ==
    {"point", "quaternion", "vector3", "pose", "pose_with_covariance",
     "pose_with_covariance_stamped", "transform", "transform_stamped", "log"}

\* header and time live in std_msgs / message_fields: a record of the
\* values drawn for their parameters.  The tests draw a header whose
\* frame_id is a float, so header does not assert the type of frame_id.
HeaderFields == <<"seq", "stamp", "frame_id">>
TimeFields == <<"secs", "nsecs">>
HeaderDefaultArgs == <<"uint32()", "time()", "string()">>
TimeDefaultArgs == <<"uint32()", "uint32()">>
StdMsgsAsserts == <<>>

Composites == Catalog \cup {"header"}

\* the namedtuple declarations: field names in declared order
Fields(c) ==
    CASE c = "point" -> <<"x", "y", "z">>
      [] c = "quaternion" -> <<"x", "y", "z", "w">>
      [] c = "vector3" -> <<"x", "y", "z">>
      [] c = "pose" -> <<"position", "orientation">>
      [] c = "pose_with_covariance" -> <<"pose", "covariance">>
      [] c = "pose_with_covariance_stamped" -> <<"header", "pose">>
      [] c = "transform" -> <<"translation", "rotation">>
      [] c = "transform_stamped" -> <<"header", "child_frame_id", "transform">>
      [] c = "log" -> <<"header", "level", "name", "msg", "file", "function",
                        "line", "topics">>
      [] c = "header" -> HeaderFields
      [] c = "time" -> TimeFields

NumFields(c) == Len(Fields(c))

RecordType(c) ==
    CASE c = "point" -> "Point"
      [] c = "quaternion" -> "Quaternion"
      [] c = "vector3" -> "Vector3"
      [] c = "pose" -> "Pose"
      [] c = "pose_with_covariance" -> "PoseWithCovariance"
      [] c = "pose_with_covariance_stamped" -> "PoseWithCovarianceStamped"
      [] c = "transform" -> "Transform"
      [] c = "transform_stamped" -> "TransformStamped"
      [] c = "log" -> "Log"
      [] c = "header" -> "Header"
      [] c = "time" -> "Time"

\* number of elements of the covariance matrix (min_size = max_size = 36)
CovarianceSize == 36

CovarianceDefault == "array(elements=float64(), min_size=36, max_size=36)"

\* the defaults with the size bounds of the covariance left out
DefaultArgs_Unsized(c) ==
    CASE c = "point" -> <<"float64()", "float64()", "float64()">>
      [] c = "quaternion" -> <<"float64()", "float64()", "float64()", "float64()">>
      [] c = "vector3" -> <<"float64()", "float64()", "float64()">>
      [] c = "pose" -> <<"point()", "quaternion()">>
      [] c = "pose_with_covariance" -> <<"pose()", "array(elements=float64())">>
      [] c = "pose_with_covariance_stamped" -> <<"header()", "pose_with_covariance()">>
      [] c = "transform" -> <<"vector3()", "quaternion()">>
      [] c = "transform_stamped" -> <<"header()", "string()", "transform()">>
      [] c = "log" -> <<"header()", "uint8()", "string()", "string()", "string()",
                        "string()", "uint32()", "array(elements=string())">>
      [] c = "header" -> HeaderDefaultArgs
      [] c = "time" -> TimeDefaultArgs

\* the default generators of the signatures, in parameter order
DefaultArgs(c) ==
    CASE c = "point" -> <<"float64()", "float64()", "float64()">>
      [] c = "quaternion" -> <<"float64()", "float64()", "float64()", "float64()">>
      [] c = "vector3" -> <<"float64()", "float64()", "float64()">>
      [] c = "pose" -> <<"point()", "quaternion()">>
      [] c = "pose_with_covariance" -> <<"pose()", CovarianceDefault>>
      [] c = "pose_with_covariance_stamped" -> <<"header()", "pose_with_covariance()">>
      [] c = "transform" -> <<"vector3()", "quaternion()">>
      [] c = "transform_stamped" -> <<"header()", "string()", "transform()">>
      [] c = "log" -> <<"header()", "uint8()", "string()", "string()", "string()",
                        "string()", "uint32()", "array(elements=string())">>
      [] c = "header" -> HeaderDefaultArgs
      [] c = "time" -> TimeDefaultArgs

\* the type each field is declared to carry (the type of its default
\* generator's values)
DeclaredType(c) ==
    CASE c = "point" -> <<"float", "float", "float">>
      [] c = "quaternion" -> <<"float", "float", "float", "float">>
      [] c = "vector3" -> <<"float", "float", "float">>
      [] c = "pose" -> <<"Point", "Quaternion">>
      [] c = "pose_with_covariance" -> <<"Pose", "list">>
      [] c = "pose_with_covariance_stamped" -> <<"Header", "PoseWithCovariance">>
      [] c = "transform" -> <<"Vector3", "Quaternion">>
      [] c = "transform_stamped" -> <<"Header", "str", "Transform">>
      [] c = "log" -> <<"Header", "int", "str", "str", "str", "str", "int", "list">>

\* one assert statement: the field whose value it tests, the class it
\* tests for, and the named replacement fields of its message template
A(f, cls, names) == [field |-> f, cls |-> cls, names |-> names]

\* the assert statements written in the reverse of the declared order
Asserts_Reversed(c) ==
    CASE c = "point" ->
           <<A(3, "float", {"z_value", "z"}), A(2, "float", {"y_value", "y"}),
             A(1, "float", {"x_value", "x"})>>
      [] c = "quaternion" ->
           <<A(4, "float", {"w_value", "w"}), A(3, "float", {"z_value", "z"}),
             A(2, "float", {"y_value", "y"}), A(1, "float", {"x_value", "x"})>>
      [] c = "vector3" ->
           <<A(3, "float", {"z_value", "z"}), A(2, "float", {"y_value", "y"}),
             A(1, "float", {"x_value", "x"})>>
      [] c = "pose" ->
           <<A(2, "Quaternion", {"orientation_value", "orientation"}),
             A(1, "Point", {"position_value", "position"})>>
      [] c = "pose_with_covariance" -> <<>>
      [] c = "pose_with_covariance_stamped" -> <<>>
      [] c = "transform" ->
           <<A(2, "Quaternion", {"rotation_value", "rotation"}),
             A(1, "Vector3", {"translation_value", "translation"})>>
      [] c = "transform_stamped" ->
           <<A(3, "Transform", {"transform_value", "transform"}),
             A(2, "str", {"child_frame_id_value", "child_frame_id"}),
             A(1, "Header", {"header_value", "header"})>>
      [] c = "log" ->
           <<A(8, "list", {"topics_value", "msg"}),
             A(7, "int", {"line_value", "line"}),
             A(6, "str", {"function_value", "function"}),
             A(5, "str", {"file_value", "file"}),
             A(4, "str", {"msg_value", "msg"}),
             A(3, "str", {"name_value", "name"}),
             A(2, "int", {"level_value", "level"})>>
      [] c = "header" -> StdMsgsAsserts
      [] c = "time" -> StdMsgsAsserts

\* the assert statements of each composite, in statement order
Asserts(c) ==
    CASE c = "point" ->
           <<A(1, "float", {"x_value", "x"}), A(2, "float", {"y_value", "y"}),
             A(3, "float", {"z_value", "z"})>>
      [] c = "quaternion" ->
           <<A(1, "float", {"x_value", "x"}), A(2, "float", {"y_value", "y"}),
             A(3, "float", {"z_value", "z"}), A(4, "float", {"w_value", "w"})>>
      [] c = "vector3" ->
           <<A(1, "float", {"x_value", "x"}), A(2, "float", {"y_value", "y"}),
             A(3, "float", {"z_value", "z"})>>
      [] c = "pose" ->
           <<A(1, "Point", {"position_value", "position"}),
             A(2, "Quaternion", {"orientation_value", "orientation"})>>
      [] c = "pose_with_covariance" -> <<>>
      [] c = "pose_with_covariance_stamped" -> <<>>
      [] c = "transform" ->
           <<A(1, "Vector3", {"translation_value", "translation"}),
             A(2, "Quaternion", {"rotation_value", "rotation"})>>
      [] c = "transform_stamped" ->
           <<A(1, "Header", {"header_value", "header"}),
             A(2, "str", {"child_frame_id_value", "child_frame_id"}),
             A(3, "Transform", {"transform_value", "transform"})>>
      [] c = "log" ->
           <<A(2, "int", {"level_value", "level"}),
             A(3, "str", {"name_value", "name"}),
             A(4, "str", {"msg_value", "msg"}),
             A(5, "str", {"file_value", "file"}),
             A(6, "str", {"function_value", "function"}),
             A(7, "int", {"line_value", "line"}),
             A(8, "list", {"topics_value", "msg"})>>
      [] c = "header" -> StdMsgsAsserts
      [] c = "time" -> StdMsgsAsserts

\* the keyword arguments every .format(...) call of the messages passes:
\* the values are passed positionally, none by keyword
FormatKwargs == {}

\* str.format: a named replacement field is looked up among the keyword
\* arguments and raises KeyError when it is not there
Format(names, kwargs) ==
    IF names \subseteq kwargs THEN "AssertionError" ELSE "KeyError"

\* what a failing assert statement raises: its message is built first
AssertRaises(a) == Format(a.names, FormatKwargs)

\* a record with its first two values exchanged
Assemble_Swapped(c, vals) ==
    Val(RecordType(c),
        [i \in 1..Len(vals) |->
            IF i = 1 THEN vals[2] ELSE IF i = 2 THEN vals[1] ELSE vals[i]])

\* a record whose second position repeats the first value
Assemble_Duplicated(c, vals) ==
    Val(RecordType(c), [i \in 1..Len(vals) |-> IF i = 2 THEN vals[1] ELSE vals[i]])

\* the record a composite returns
Assemble(c, vals) == Val(RecordType(c), vals)


(***************************************************************************)
(* Strategies.  A strategy is named by the expression that constructs it.  *)
(* The field primitives (message_fields) and just / one_of / integers of   *)
(* hypothesis are the external draw primitive: each is given by the values *)
(* a draw from it can yield.                                               *)
(***************************************************************************)
X0 == "float64(min_value=0.0, max_value=0.0)"
U0 == "uint32(min_value=0, max_value=0)"
FloatOrInt == "one_of(float64(), just(1))"
Array4 == "array(elements=uint8(min_value=0, max_value=0), min_size=4, max_size=4)"
Array9 == "array(elements=float64(min_value=0.0, max_value=0.0), min_size=9, max_size=9)"
Array36 == "array(elements=float64(min_value=0.0, max_value=0.0), min_size=36, max_size=36)"
ArrayAny == "array(elements=float64(min_value=0.0, max_value=0.0))"
TestTime == "time(secs=uint32(min_value=1, max_value=1), nsecs=uint32(min_value=2, max_value=2))"
ZeroTime == "time(secs=uint32(min_value=0, max_value=0), nsecs=uint32(min_value=0, max_value=0))"
TestHeader == "header(seq=uint32(0, 0), stamp=time(secs=uint32(1, 1), nsecs=uint32(2, 2)), frame_id=just('some_tf_frame_name'))"
FloatFrameHeader == "header(seq=uint32(0, 0), stamp=time(secs=uint32(0, 0), nsecs=uint32(0, 0)), frame_id=float64(0.0, 0.0))"
BadPoint == "point(x=just(1))"
FixedPoint == "point(x=float64(0.0, 0.0), y=float64(0.0, 0.0), z=float64(0.0, 0.0))"
FlakyQuaternion == "quaternion(x=one_of(float64(), just(1)))"
FixedQuaternion == "quaternion(x=float64(0.0, 0.0), y=float64(0.0, 0.0), z=float64(0.0, 0.0), w=float64(0.0, 0.0))"
FixedVector3 == "vector3(x=float64(0.0, 0.0), y=float64(0.0, 0.0), z=float64(0.0, 0.0))"
BadPose == "pose(position=point(x=just(1)))"
FixedPose == "pose(position=point(0.0, 0.0, 0.0), orientation=quaternion(0.0, 0.0, 0.0, 0.0))"
FixedTransform == "transform(translation=vector3(0.0, 0.0, 0.0), rotation=quaternion(0.0, 0.0, 0.0, 0.0))"
FixedPoseWithCovariance == "pose_with_covariance(pose=pose(point(0.0, 0.0, 0.0), quaternion(0.0, 0.0, 0.0, 0.0)), covariance=array(float64(0.0, 0.0), 36, 36))"

\* array(elements, min_size, max_size) as a parameter triple; an array
\* without size bounds draws between 0 and MaxArr elements
ArrayParams(s) ==
    CASE s = CovarianceDefault ->
           [elements |-> "float64()", min |-> CovarianceSize, max |-> CovarianceSize]
      [] s = "array(elements=float64())" ->
           [elements |-> "float64()", min |-> 0, max |-> MaxArr]
      [] s = "array(elements=string())" ->
           [elements |-> "string()", min |-> 0, max |-> MaxArr]
      [] s = Array4 ->
           [elements |-> "uint8(min_value=0, max_value=0)", min |-> 4, max |-> 4]
      [] s = Array9 -> [elements |-> X0, min |-> 9, max |-> 9]
      [] s = Array36 -> [elements |-> X0, min |-> 36, max |-> 36]
      [] s = ArrayAny -> [elements |-> X0, min |-> 0, max |-> MaxArr]

ArrayStrategies ==
    {CovarianceDefault, "array(elements=float64())", "array(elements=string())",
     Array4, Array9, Array36, ArrayAny}

\* the sequences an array strategy can yield: any length within the size
\* bounds, every element drawn from the element strategy
ArrayDraws(elems, lo, hi) ==
    UNION {{L([i \in 1..n |-> IF i % 2 = 1 THEN a ELSE b]) : a \in elems, b \in elems}
           : n \in lo..hi}

ScalarOutcomes(s) ==
    CASE s = "float64()" -> {F(0), F(15)}
      [] s = X0 -> {F(0)}
      [] s = "just(1)" -> {I(1)}
      [] s = FloatOrInt -> {F(15), I(1)}
      [] s = "uint8()" -> {I(255)}
      [] s = "uint8(min_value=0, max_value=0)" -> {I(0)}
      [] s = "uint32()" -> {PyInt(65535, 65535)}
      [] s = U0 -> {I(0)}
      [] s = "uint32(min_value=1, max_value=1)" -> {I(1)}
      [] s = "uint32(min_value=2, max_value=2)" -> {I(2)}
      [] s = "integers()" -> {I(256), PyInt(65536, 0)}
      [] s = "just(True)" -> {B(TRUE)}
      [] s = "string()" -> {S("a")}
      [] s = "just('jpg')" -> {S("jpg")}
      [] s = "just('some_tf_frame_name')" -> {S("some_tf_frame_name")}

ScalarStrategies ==
    {"float64()", X0, "just(1)", FloatOrInt, "uint8()",
     "uint8(min_value=0, max_value=0)", "uint32()", U0,
     "uint32(min_value=1, max_value=1)", "uint32(min_value=2, max_value=2)",
     "integers()", "just(True)", "string()", "just('jpg')",
     "just('some_tf_frame_name')"}

PrimitiveOutcomes(s) ==
    IF s \in ArrayStrategies
    THEN LET p == ArrayParams(s)
         IN  ArrayDraws(ScalarOutcomes(p.elements), p.min, p.max)
    ELSE ScalarOutcomes(s)

\* a composite strategy: the composite and the strategy of each parameter
Call(c, args) == [comp |-> c, args |-> args]

Desc(s) ==
    CASE s = "point()" -> Call("point", DefaultArgs("point"))
      [] s = BadPoint ->
           Call("point", [DefaultArgs("point") EXCEPT ![1] = "just(1)"])
      [] s = FixedPoint -> Call("point", <<X0, X0, X0>>)
      [] s = "quaternion()" -> Call("quaternion", DefaultArgs("quaternion"))
      [] s = FlakyQuaternion ->
           Call("quaternion", [DefaultArgs("quaternion") EXCEPT ![1] = FloatOrInt])
      [] s = FixedQuaternion -> Call("quaternion", <<X0, X0, X0, X0>>)
      [] s = "vector3()" -> Call("vector3", DefaultArgs("vector3"))
      [] s = FixedVector3 -> Call("vector3", <<X0, X0, X0>>)
      [] s = "pose()" -> Call("pose", DefaultArgs("pose"))
      [] s = BadPose -> Call("pose", [DefaultArgs("pose") EXCEPT ![1] = BadPoint])
      [] s = FixedPose -> Call("pose", <<FixedPoint, FixedQuaternion>>)
      [] s = "transform()" -> Call("transform", DefaultArgs("transform"))
      [] s = FixedTransform -> Call("transform", <<FixedVector3, FixedQuaternion>>)
      [] s = "pose_with_covariance()" ->
           Call("pose_with_covariance", DefaultArgs("pose_with_covariance"))
      [] s = FixedPoseWithCovariance ->
           Call("pose_with_covariance", <<FixedPose, Array36>>)
      [] s = "header()" -> Call("header", DefaultArgs("header"))
      [] s = TestHeader ->
           Call("header", <<U0, TestTime, "just('some_tf_frame_name')">>)
      [] s = FloatFrameHeader -> Call("header", <<U0, ZeroTime, X0>>)
      [] s = "time()" -> Call("time", DefaultArgs("time"))
      [] s = TestTime ->
           Call("time", <<"uint32(min_value=1, max_value=1)",
                          "uint32(min_value=2, max_value=2)">>)
      [] s = ZeroTime -> Call("time", <<U0, U0>>)

CompositeStrategies ==
    {"point()", BadPoint, FixedPoint, "quaternion()", FlakyQuaternion,
     FixedQuaternion, "vector3()", FixedVector3, "pose()", BadPose, FixedPose,
     "transform()", FixedTransform, "pose_with_covariance()",
     FixedPoseWithCovariance, "header()", TestHeader, FloatFrameHeader,
     "time()", TestTime, ZeroTime}

Strategies == ScalarStrategies \cup ArrayStrategies \cup CompositeStrategies

(***************************************************************************)
(* One composite draw as the draw primitive sees it: the set of outcomes   *)
(* of draw(composite(...)), given the outcomes of each field's strategy.   *)
(***************************************************************************)
Values(O) == {o \in O : IsValue(o)}

\* every way of drawing one value per field, fields 1..n
RECURSIVE FieldDraws(_, _)
FieldDraws(outs, n) ==
    IF n = 0 THEN {<<>>}
    ELSE {Append(p, v) : p \in FieldDraws(outs, n - 1), v \in Values(outs[n])}

\* the position of the first assert statement that fails, 0 when all pass
FirstFailure(c, vals) ==
    LET bad == {j \in 1..Len(Asserts(c)) :
                   ~IsInstance(vals[Asserts(c)[j].field], Asserts(c)[j].cls)}
    IN  IF bad = {} THEN 0 ELSE CHOOSE j \in bad : \A j2 \in bad : j <= j2

CompositeOutcomes(c, outs) ==
    LET n == NumFields(c)
        all == FieldDraws(outs, n)
    IN  {Assemble(c, vals) : vals \in {w \in all : FirstFailure(c, w) = 0}}
        \cup {Raise(AssertRaises(Asserts(c)[FirstFailure(c, vals)])) :
                 vals \in {w \in all : FirstFailure(c, w) # 0}}
        \cup {o \in UNION {outs[i] : i \in 1..n} :
                 /\ ~IsValue(o)
                 /\ \E i \in 1..n :
                       /\ o \in outs[i]
                       /\ \A j \in 1..(i - 1) : Values(outs[j]) # {}}

\* the second draw call handed the first parameter
DrawArg_CopyPaste(c, st, i) == IF i = 2 THEN st[1] ELSE st[i]

\* the strategy handed to the i-th draw call
DrawArg(c, st, i) == st[i]

RECURSIVE Outcomes(_)
Outcomes(s) ==
    IF s \in CompositeStrategies
    THEN LET d == Desc(s)
         IN  CompositeOutcomes(d.comp,
                 [i \in 1..Len(d.args) |-> Outcomes(DrawArg(d.comp, d.args, i))])
    ELSE PrimitiveOutcomes(s)

OutcomeTable == [s \in Strategies |-> Outcomes(s)]

\* what one call draw(strategy) can give
Draw(s) == OutcomeTable[s]


(***************************************************************************)
(* The generators a caller constructs.                                     *)
(***************************************************************************)
\* generators a caller may supply for a field of the given declared type:
\* well-typed ones, ill-typed ones and ones that are sometimes ill-typed
OverridesFor(type) ==
    CASE type = "float" -> {X0, "just(1)", FloatOrInt}
      [] type = "int" -> {"integers()", "just(True)", "just('jpg')"}
      [] type = "str" -> {"just('jpg')", X0}
      [] type = "list" -> {Array4, Array9, ArrayAny, "just(1)"}
      [] type = "Header" -> {TestHeader, FloatFrameHeader, "just(1)"}
      [] type = "Time" -> {TestTime, ZeroTime}
      [] type = "Point" -> {FixedPoint, BadPoint, "vector3()"}
      [] type = "Quaternion" -> {FixedQuaternion, FlakyQuaternion, "just(1)"}
      [] type = "Vector3" -> {FixedVector3, "point()"}
      [] type = "Pose" -> {FixedPose, BadPose, "just(1)"}
      [] type = "Transform" -> {FixedTransform, "pose()"}
      [] type = "PoseWithCovariance" -> {FixedPoseWithCovariance, "just(1)"}

Overridden(c, st) == {i \in 1..NumFields(c) : st[i] # DefaultArgs(c)[i]}

\* the argument lists of a call composite(...): the defaults with at most
\* MaxOverrides fields overridden, and the calls named above
RECURSIVE ArgLists(_, _)
ArgLists(c, n) ==
    IF n = 0 THEN {<<>>}
    ELSE {Append(p, s) :
            p \in ArgLists(c, n - 1),
            s \in {DefaultArgs(c)[n]} \cup OverridesFor(DeclaredType(c)[n])}

Configs(c) ==
    {Desc(s).args : s \in {x \in CompositeStrategies : Desc(x).comp = c}}
    \cup (IF c \in Catalog
          THEN {st \in ArgLists(c, NumFields(c)) :
                   Cardinality(Overridden(c, st)) <= MaxOverrides}
          ELSE {})

NoError == [kind |-> "", origin |-> "", field |-> 0, diagnostic |-> FALSE]

Event(op, f) == [op |-> op, field |-> f]

(***************************************************************************)
(* One draw of the composite comp(strat), statement by statement.          *)
(***************************************************************************)
Init ==
    /\ comp \in Composites
    /\ strat \in Configs(comp)
    /\ base = strat
    /\ lastF = 0
    /\ pc = "draw"
    /\ drawn = <<>>
    /\ k = 1
    /\ events = <<>>
    /\ result = None
    /\ error = NoError
    /\ ndraws = 1

\* <field>_value = draw(<field>): the draw primitive returns a value
DrawField ==
    /\ pc = "draw"
    /\ LET i == Len(drawn) + 1
       IN  \E o \in Draw(DrawArg(comp, strat, i)) :
              /\ IsValue(o)
              /\ drawn' = Append(drawn, o)
              /\ events' = Append(events, Event("draw", i))
              /\ pc' = IF i = NumFields(comp) THEN "assert" ELSE "draw"
    /\ UNCHANGED <<comp, strat, base, lastF, k, result, error, ndraws>>

\* draw(<field>) raises (a nested composite failed): the exception leaves
\* the composite at once
DrawRaises ==
    /\ pc = "draw"
    /\ LET i == Len(drawn) + 1
       IN  \E o \in Draw(DrawArg(comp, strat, i)) :
              /\ ~IsValue(o)
              /\ error' = [kind |-> o.v, origin |-> "draw", field |-> i,
                           diagnostic |-> FALSE]
              /\ events' = Append(events, Event("draw", i))
              /\ pc' = "raised"
    /\ UNCHANGED <<comp, strat, base, lastF, drawn, k, result, ndraws>>

\* assert isinstance(<field>_value, cls), <message>: the test passes
AssertPasses ==
    /\ pc = "assert"
    /\ k <= Len(Asserts(comp))
    /\ LET a == Asserts(comp)[k]
       IN  /\ IsInstance(drawn[a.field], a.cls)
           /\ events' = Append(events, Event("assert", a.field))
    /\ k' = k + 1
    /\ UNCHANGED <<comp, strat, base, lastF, pc, drawn, result, error, ndraws>>

\* a failing draw that starts over instead of raising
AssertFails_Retry ==
    /\ pc = "assert"
    /\ k <= Len(Asserts(comp))
    /\ ~IsInstance(drawn[Asserts(comp)[k].field], Asserts(comp)[k].cls)
    /\ events' = Append(events, Event("assert", Asserts(comp)[k].field))
    /\ pc' = "draw"
    /\ drawn' = <<>>
    /\ k' = 1
    /\ UNCHANGED <<comp, strat, base, lastF, result, error, ndraws>>

\* the test fails: the message expression is evaluated, then raised
AssertFails ==
    /\ pc = "assert"
    /\ k <= Len(Asserts(comp))
    /\ LET a == Asserts(comp)[k]
       IN  /\ ~IsInstance(drawn[a.field], a.cls)
           /\ events' = Append(events, Event("assert", a.field))
           /\ error' = [kind |-> AssertRaises(a), origin |-> "assert",
                        field |-> a.field,
                        diagnostic |-> (AssertRaises(a) = "AssertionError")]
    /\ pc' = "raised"
    /\ UNCHANGED <<comp, strat, base, lastF, drawn, k, result, ndraws>>

\* a return that first validates the length of a covariance
Return_Validated ==
    /\ pc = "assert"
    /\ k > Len(Asserts(comp))
    /\ IF comp = "pose_with_covariance"
          /\ ~(drawn[2].t = "list" /\ Len(drawn[2].v) = CovarianceSize)
       THEN /\ pc' = "raised"
            /\ error' = [kind |-> "AssertionError", origin |-> "assert",
                         field |-> 2, diagnostic |-> TRUE]
            /\ UNCHANGED result
       ELSE /\ pc' = "returned"
            /\ result' = Assemble(comp, drawn)
            /\ UNCHANGED error
    /\ UNCHANGED <<comp, strat, base, lastF, drawn, k, events, ndraws>>

\* return _Record(<field>_value, ...)
Return ==
    /\ pc = "assert"
    /\ k > Len(Asserts(comp))
    /\ result' = Assemble(comp, drawn)
    /\ pc' = "returned"
    /\ UNCHANGED <<comp, strat, base, lastF, drawn, k, events, error, ndraws>>

\* the generator is stateless: it is drawn again from the same strategies
Again ==
    /\ pc \in {"returned", "raised"}
    /\ ndraws < MaxDraws
    /\ ndraws' = ndraws + 1
    /\ pc' = "draw"
    /\ drawn' = <<>>
    /\ k' = 1
    /\ events' = <<>>
    /\ result' = None
    /\ error' = NoError
    /\ UNCHANGED <<comp, strat, base, lastF>>

Next == DrawField \/ DrawRaises \/ AssertPasses \/ AssertFails \/ Return \/ Again

Spec == Init /\ [][Next]_vars

(***************************************************************************)
(* Constructing a composite a second time with one more field overridden.  *)
(***************************************************************************)
InitOverride ==
    /\ comp \in Catalog
    /\ strat \in Configs(comp)
    /\ base = strat
    /\ lastF = 0
    /\ pc = "constructed"
    /\ drawn = <<>>
    /\ k = 1
    /\ events = <<>>
    /\ result = None
    /\ error = NoError
    /\ ndraws = 1

Override ==
    /\ pc = "constructed"
    /\ \E f \in 1..NumFields(comp) :
          \E s \in ({DefaultArgs(comp)[f]} \cup OverridesFor(DeclaredType(comp)[f]))
                   \ {strat[f]} :
             /\ Cardinality(Overridden(comp, [strat EXCEPT ![f] = s])) <= MaxOverrides
             /\ strat' = [strat EXCEPT ![f] = s]
             /\ lastF' = f
    /\ pc' = "overridden"
    /\ UNCHANGED <<comp, base, drawn, k, events, result, error, ndraws>>

NextOverride == Override

SpecOverride == InitOverride /\ [][NextOverride]_vars


(***************************************************************************)
(* Auxiliary definitions of the properties.                                *)
(***************************************************************************)
Terminal == pc \in {"returned", "raised"}

\* the fields drawn so far, in the order of the draw calls
DrawEvents == SelectSeq(events, LAMBDA e : e.op = "draw")
AssertEvents == SelectSeq(events, LAMBDA e : e.op = "assert")
DrawnFields == [j \in 1..Len(DrawEvents) |-> DrawEvents[j].field]
AssertedFields == [j \in 1..Len(AssertEvents) |-> AssertEvents[j].field]
UpTo(m) == [j \in 1..m |-> j]

\* the outcomes of drawing composite c constructed with the strategies st
CallOutcomes(c, st) ==
    CompositeOutcomes(c, [i \in 1..NumFields(c) |-> Draw(DrawArg(c, st, i))])

\* the statement-by-statement draw and the outcome sets agree
StepwiseAgreesWithOutcomes ==
    /\ pc = "returned" => result \in CallOutcomes(comp, strat)
    /\ pc = "raised" => Raise(error.kind) \in CallOutcomes(comp, strat)

\* strategies whose every leaf is fixed to one constant, by construction
FixedScalars ==
    {X0, "just(1)", "uint8(min_value=0, max_value=0)", U0,
     "uint32(min_value=1, max_value=1)", "uint32(min_value=2, max_value=2)",
     "just(True)", "just('jpg')", "just('some_tf_frame_name')"}

RECURSIVE IsFixed(_)
IsFixed(s) ==
    IF s \in CompositeStrategies
    THEN \A i \in 1..Len(Desc(s).args) : IsFixed(Desc(s).args[i])
    ELSE IF s \in ArrayStrategies
    THEN ArrayParams(s).elements \in FixedScalars
         /\ ArrayParams(s).min = ArrayParams(s).max
    ELSE s \in FixedScalars

\* the nested tuple of the constants of a fixed strategy
RECURSIVE Constant(_)
Constant(s) ==
    IF s \in CompositeStrategies
    THEN Val(RecordType(Desc(s).comp),
             [i \in 1..Len(Desc(s).args) |-> Constant(Desc(s).args[i])])
    ELSE IF s \in ArrayStrategies
    THEN L([i \in 1..ArrayParams(s).min |->
              CHOOSE v \in ScalarOutcomes(ArrayParams(s).elements) : TRUE])
    ELSE CHOOSE v \in ScalarOutcomes(s) : TRUE

\* every constant has the runtime type the assertion on its field tests,
\* at every level of nesting
RECURSIVE ConstantsAccepted(_, _)
ConstantsAccepted(c, args) ==
    /\ \A j \in 1..Len(Asserts(c)) :
          IsInstance(Constant(args[Asserts(c)[j].field]), Asserts(c)[j].cls)
    /\ \A i \in 1..Len(args) :
          args[i] \in CompositeStrategies
             => ConstantsAccepted(Desc(args[i]).comp, Desc(args[i]).args)

AllFixed == \A i \in 1..NumFields(comp) : IsFixed(strat[i])

ExpectedRecord ==
    Val(RecordType(comp), [i \in 1..NumFields(comp) |-> Constant(strat[i])])

\* the records composite c constructed with st can return, and the values
\* that can stand at position g of one of them
Records(c, st) == Values(CallOutcomes(c, st))
At(records, g) == {r.v[g] : r \in records}

\* the assert statement of the composite that tests field i, if any
AssertsOn(c, i) == {j \in 1..Len(Asserts(c)) : Asserts(c)[j].field = i}
Rejected(c, i, v) ==
    \E j \in AssertsOn(c, i) : ~IsInstance(v, Asserts(c)[j].cls)

\* an integer outside the range of uint8 / of uint32
OutsideUint8(v) == v.t = "int" /\ (v.v[1] > 0 \/ v.v[2] > 255)
OutsideUint32(v) == v.t = "int" /\ v.v[1] > 65535


(***************************************************************************)
(* The claims.                                                             *)
(***************************************************************************)

\* C1: in every composite of the catalog, a draw in which some field's
\* generator yielded a value whose runtime type is not the field's declared
\* type is failed by the composite's type assertion and returns no record.
C1_MalformedDrawFails ==
    (/\ comp \in Catalog
     /\ Terminal
     /\ Len(drawn) = NumFields(comp)
     /\ \E i \in 1..Len(drawn) : ~IsInstance(drawn[i], DeclaredType(comp)[i]))
    => (pc = "raised" /\ error.origin = "assert" /\ result = None)

\* C2: a failed type assertion reaches the caller as an AssertionError
\* whose diagnostic was built (field, value drawn, generator); building the
\* diagnostic never fails with another error.
C2_FailureIsDiagnosedAssertion ==
    (pc = "raised" /\ error.origin = "assert")
    => (error.kind = "AssertionError" /\ error.diagnostic)

\* C3: a returned record has as many positions as the schema declares
\* fields, and position i holds exactly the value drawn from the generator
\* of the i-th declared field.
C3_RecordHoldsDrawsInOrder ==
    pc = "returned"
    => /\ result.t = RecordType(comp)
       /\ Len(result.v) = NumFields(comp)
       /\ DrawnFields = UpTo(NumFields(comp))
       /\ \A i \in 1..NumFields(comp) :
             /\ result.v[i] = drawn[i]
             /\ drawn[i] \in Draw(strat[i])

C3_Witness ==
    /\ pc = "returned"
    /\ comp = "transform_stamped"
    /\ strat[2] = "just('jpg')"
    /\ result.v[2] = S("jpg")
    /\ result.v[1].t = "Header"
    /\ result.v[3].t = "Transform"

C5_FixedSizeArrays ==
    /\ \A i \in 1..Len(drawn) :
          (strat[i] \in ArrayStrategies
           /\ ArrayParams(strat[i]).min = ArrayParams(strat[i]).max)
          => /\ drawn[i].t = "list"
             /\ Len(drawn[i].v) = ArrayParams(strat[i]).min
             /\ pc = "returned" => result.v[i] = drawn[i]
    /\ (comp = "pose_with_covariance" /\ Len(drawn) = 2
        /\ strat[2] = DefaultArgs(comp)[2])
       => Len(drawn[2].v) = CovarianceSize
    /\ (comp = "pose_with_covariance_stamped" /\ Len(drawn) = 2
        /\ strat[2] = "pose_with_covariance()")
       => Len(drawn[2].v[2].v) = CovarianceSize
    /\ \A i \in 1..Len(drawn) :
          strat[i] = Array4 => drawn[i] = L(<<I(0), I(0), I(0), I(0)>>)

C5_Witness ==
    /\ pc = "returned"
    /\ ndraws = 2
    /\ comp = "pose_with_covariance"
    /\ strat = DefaultArgs(comp)
    /\ Len(result.v[2].v) = 36
    /\ result.v[2].v[1] # result.v[2].v[2]

\* C6 as stated: replacing the generator of a field f leaves the set of
\* values that can stand at any other position g of a successfully drawn
\* record unchanged.
C6_OverrideLeavesOtherFields ==
    pc = "overridden"
    => LET before == Records(comp, base)
           after == Records(comp, strat)
       IN  \A g \in 1..NumFields(comp) \ {lastF} : At(after, g) = At(before, g)

\* C6 amended: when the composite can be drawn successfully both before
\* and after the generator of f is replaced, the set of values that can
\* stand at any other position g is unchanged, and every record keeps the
\* declared fields.
C6_OverrideLeavesOtherFieldsWhenDrawable ==
    pc = "overridden"
    => LET before == Records(comp, base)
           after == Records(comp, strat)
       IN  (before # {} /\ after # {})
           => /\ \A g \in 1..NumFields(comp) \ {lastF} :
                    At(after, g) = At(before, g)
              /\ \A r \in after :
                    r.t = RecordType(comp) /\ Len(r.v) = NumFields(comp)

C6_Witness ==
    /\ pc = "overridden"
    /\ comp = "point"
    /\ lastF = 1
    /\ base = DefaultArgs("point")
    /\ strat[1] = X0
    /\ At(Records(comp, strat), 1) = {F(0)}
    /\ At(Records(comp, strat), 2) = {F(0), F(15)}

\* C7 as stated: in every draw the draw primitive is invoked exactly once
\* for each declared field, in declared order, also when the draw fails.
C7_EveryFieldDrawnOnce ==
    Terminal => DrawnFields = UpTo(NumFields(comp))

\* C7 amended: the fields are drawn in declared order, none twice; when
\* every invocation of the draw primitive returns a value, each declared
\* field is drawn exactly once, also when the draw then fails a type
\* assertion; when an invocation itself raises, the draw ends there and the
\* fields declared after it are not drawn.
C7_FieldsDrawnInOrderUntilRaise ==
    /\ \E m \in 0..NumFields(comp) : DrawnFields = UpTo(m)
    /\ (pc \in {"assert", "returned"} \/ (pc = "raised" /\ error.origin = "assert"))
       => DrawnFields = UpTo(NumFields(comp))
    /\ (pc = "raised" /\ error.origin = "draw")
       => DrawnFields = UpTo(error.field)

C7_Witness ==
    /\ pc = "raised"
    /\ error.origin = "assert"
    /\ comp = "log"
    /\ error.field = 2
    /\ DrawnFields = <<1, 2, 3, 4, 5, 6, 7, 8>>

\* C8: pose_with_covariance accepts a covariance of any length: once the
\* covariance override has yielded a sequence of a length other than 36, no
\* assertion stands between the draw and the return, the draw does not
\* fail, and the returned record carries that sequence unchanged.
C8_CovarianceLengthNotEnforced ==
    (/\ comp = "pose_with_covariance"
     /\ Len(drawn) = 2
     /\ drawn[2].t = "list"
     /\ Len(drawn[2].v) # CovarianceSize)
    => /\ pc \in {"assert", "returned"}
       /\ pc = "assert" => k > Len(Asserts(comp))
       /\ pc = "returned" => result.v[2] = drawn[2]

C8_Witness ==
    /\ pc = "returned"
    /\ comp = "pose_with_covariance"
    /\ strat[2] = Array9
    /\ Len(result.v[2].v) = 9

\* C9: all field draws precede every type assertion; the assertions are
\* evaluated in declared field order; a draw that fails an assertion has
\* drawn every field, and fails for the earliest declared field among those
\* whose value its assertion rejects.
C9_DrawsBeforeAssertsInOrder ==
    /\ \A p \in 1..Len(events) : \A q \in (p + 1)..Len(events) :
          events[p].op = "assert" => events[q].op = "assert"
    /\ \A p \in 1..Len(AssertedFields) : \A q \in (p + 1)..Len(AssertedFields) :
          AssertedFields[p] < AssertedFields[q]
    /\ AssertedFields # <<>> => DrawnFields = UpTo(NumFields(comp))
    /\ (pc = "raised" /\ error.origin = "assert")
       => /\ Len(drawn) = NumFields(comp)
          /\ Rejected(comp, error.field, drawn[error.field])
          /\ \A i \in 1..(error.field - 1) : ~Rejected(comp, i, drawn[i])

C9_Witness ==
    /\ pc = "raised"
    /\ error.origin = "assert"
    /\ comp = "log"
    /\ error.field = 2
    /\ drawn[2].t = "str"
    /\ drawn[7].t = "str"
    /\ Len(drawn) = 8

\* C10: the assertions test the runtime type only: an integer outside the
\* uint8 / uint32 range, or a boolean, drawn for level or line of log never
\* fails the draw and is returned unchanged, and transform_stamped never
\* rejects a Header record, whatever the types of its inner fields.
C10_OnlyRuntimeTypeTested ==
    /\ (pc = "raised" /\ error.origin = "assert")
       => (LET v == drawn[error.field]
           IN  /\ (comp = "log" /\ error.field \in {2, 7})
                  => v.t \notin {"int", "bool"}
               /\ (comp = "transform_stamped" /\ error.field = 1)
                  => v.t # "Header")
    /\ (/\ comp = "log"
        /\ Terminal
        /\ Overridden(comp, strat) \subseteq {2, 7}
        /\ strat[2] \in {"uint8()", "integers()", "just(True)"}
        /\ strat[7] \in {"uint32()", "integers()", "just(True)"})
       => (pc = "returned" /\ result.v[2] = drawn[2] /\ result.v[7] = drawn[7])
    /\ (/\ comp = "transform_stamped"
        /\ Terminal
        /\ strat = <<FloatFrameHeader, "string()", "transform()">>)
       => (pc = "returned" /\ result.v[1].v[3] = F(0))

C10_Witness ==
    /\ pc = "returned"
    /\ comp = "log"
    /\ OutsideUint8(result.v[2])
    /\ OutsideUint32(result.v[2])
    /\ result.v[7] = B(TRUE)

====
